---- MODULE Spec2Model ----
(***************************************************************************)
(* Model of the resumable command buffer of bapi-dmm-reader                *)
(* (crates/bapi-dmm-reader/src/load/command_buffer.rs).                    *)
(*                                                                         *)
(* One drain invocation (_bapidmm_work_commandbuffer) is modelled as the   *)
(* action Call (lines 127-146: index lookup, buffer lookup,                *)
(* check_invalidate) followed by one Step per iteration of the `while let` *)
(* loop (lines 147-226) and by Finish (lines 228-238).  While an           *)
(* invocation is running (pc = "loop") nothing else is enabled: the engine *)
(* is single threaded and not re-entrant.  The host (BYOND) is the         *)
(* environment: it answers the tick check, may fail a primitive, and may   *)
(* change world.max[x|y|z] while it runs a world-mutating primitive or     *)
(* between two invocations.                                                *)
(*                                                                         *)
(* A second specification, SpecFn, applies the functions the drain calls   *)
(* on their own, once, to an argument drawn by InitFn:                     *)
(* extremely_unsafe_resolve_coord, CachedTurfs::check_invalidate,          *)
(* convert_vars_list_to_byondlist / convert_literal_to_byondvalue, and the *)
(* prefab-table parser of dmm_lite::prefabs on a map written in both       *)
(* dialects.                                                               *)
(***************************************************************************)
EXTENDS Integers, Sequences, FiniteSets, TLC

\* ------------------------------------------------------------------ bounds
\* Number of entries of PARSED_MAPS.
NumMaps == 2
\* Stacks explored with every kind of failure have 1..MaxSmall commands.
MaxSmall == 3
\* Long stacks have k*MIN_PAUSE + d commands, k in 1..MaxBatches, |d| <= MaxSlack.
MaxBatches == 2
MaxSlack == 1
\* A host primitive failure is explored at the 1st..MaxHostCalls-th host call
\* of a command (a command makes at most five).
MaxHostCalls == 5
\* A function applied on its own sees world sizes 0..MaxDim on each axis and
\* coordinates 0..MaxDim+1.
MaxDim == 2
\* A list literal has at most MaxElems elements, an associative list literal
\* at most MaxElems - 1 pairs.
MaxElems == 3
\* A prefab table entry stacks at most MaxPrefabs prefabs.
MaxPrefabs == 2

\* ------------------------------------------------------- program constants
MIN_PAUSE == 100

\* ------------------------------------------------------------- the world
\* Values world.max[x|y|z] takes in the model.
BoundsSet == { <<2, 2, 1>>, <<3, 2, 1>> }
\* CachedTurfs::default(): world_bounds (0,0,0), no cached turf.
DefaultBounds == <<0, 0, 0>>
\* The null reference.
NullRef == -1
\* None, of PARSED_MAPS.get_mut(id).
NoMap == -1
\* Turf indices for which the host hands out a null reference.
NullTiles == { 1 }

MapIds == 0 .. (NumMaps - 1)
Keys == { 1, 2 }
\* The resume key that holds a buffer after load: the first one.
LoadedKey == CHOOSE k \in Keys : \A j \in Keys : k <= j

\* --------------------------------------------------------------- commands
\* The prefabs and commands a load produced, as a table; a stack holds
\* indices into it (Command borrows its prefab from the parsed map).
Cmd(kind, loc, path, vars, new_z) ==
    [kind |-> kind, loc |-> loc, path |-> path, vars |-> vars, new_z |-> new_z]

CmdTable == <<
    Cmd("CreateTurf", <<1, 1, 1>>, "/turf/a", FALSE, FALSE),   \*  1
    Cmd("CreateArea", <<1, 1, 1>>, "/area/a", FALSE, FALSE),   \*  2
    Cmd("CreateAtom", <<1, 2, 1>>, "/obj/a",  TRUE,  FALSE),   \*  3
    Cmd("CreateArea", <<1, 2, 1>>, "/area/b", FALSE, TRUE),    \*  4
    Cmd("CreateAtom", <<1, 1, 1>>, "/obj/b",  FALSE, FALSE),   \*  5
    Cmd("CreateTurf", <<2, 1, 1>>, "/turf/b", TRUE,  FALSE),   \*  6  null tile
    Cmd("CreateArea", <<2, 1, 1>>, "/area/a", FALSE, FALSE),   \*  7  null tile
    Cmd("CreateAtom", <<2, 1, 1>>, "/obj/a",  TRUE,  FALSE),   \*  8  null tile
    Cmd("CreateTurf", <<3, 1, 1>>, "/turf/a", FALSE, FALSE),   \*  9  outside (2,2,1)
    Cmd("CreateArea", <<3, 1, 1>>, "/area/b", FALSE, FALSE),   \* 10  outside (2,2,1)
    Cmd("CreateAtom", <<3, 1, 1>>, "/obj/b",  FALSE, FALSE),   \* 11  outside (2,2,1)
    Cmd("CreateTurf", <<0, 1, 1>>, "/turf/a", FALSE, FALSE),   \* 12  x = 0
    Cmd("CreateArea", <<1, 1, 2>>, "/area/a", FALSE, FALSE),   \* 13  outside on z
    Cmd("CreateAtom", <<1, 3, 1>>, "/obj/a",  FALSE, FALSE)    \* 14  outside on y
>>

\* Stacks repeat one of these patterns.  The long ones only hold commands
\* whose loc is inside every element of BoundsSet.
LongPatterns == { <<1>>, <<2, 3, 1>>, <<6, 4, 5>> }
SmallPatterns ==
    { <<2, 3, 1>>, <<6, 4, 5>>, <<9, 10, 11>>, <<12, 5>>, <<13, 1>>, <<14, 4>>,
      <<3, 9, 7>> }

LongSizes == { n \in 1 .. (MaxBatches * MIN_PAUSE + MaxSlack) :
                 \E k \in 1 .. MaxBatches, d \in 0 .. MaxSlack :
                    n = k * MIN_PAUSE + d \/ n = k * MIN_PAUSE - d }
SmallSizes == 1 .. MaxSmall

\* The stack of n commands that repeats pattern p, bottom first.
StackOf(p, n) == [i \in 1 .. n |-> p[((i - 1) % Len(p)) + 1]]

Stacks == { StackOf(p, n) : p \in LongPatterns, n \in LongSizes }
          \cup { StackOf(p, n) : p \in SmallPatterns, n \in SmallSizes }

VARIABLES
    hostBounds,      \* the host's world.maxx, world.maxy, world.maxz
    command_buffers, \* PARSED_MAPS[id].command_buffers: resume key -> CommandBuffer
    loading,         \* the parsed map datum's loading flag, per map
    warnings,        \* number of warnings added to the parsed map datum, per map
    pc,              \* "idle", or "loop" while an invocation runs its command loop
    cur,             \* the arguments of the invocation: [id, key]
    minimum_pause_counter,
    ret,             \* what the last invocation returned
    event,           \* what happened last: which action, and how Call's lookups went
    \* ---- history
    initial,         \* the stack of the loaded buffer as load left it
    log,             \* the commands dispatched so far: <<position, command>>
    last,            \* the last loop iteration of the invocation: trace, outcome
    atEntry,         \* the turf cache and the host's bounds when the invocation began
    executed,        \* commands completely executed by the invocation
    popped,          \* commands popped by the invocation
    calls,           \* invocations made for the loaded buffer in an undisturbed run
    undisturbed,     \* so far: every tick check said exhausted, no skip, no failure
    made,            \* per type path: successful create_or_get_area / text2path
                     \* calls made for it by the command loop
    entered,         \* invocations that found the loaded buffer and reached
                     \* the command loop
    \* ---- a function of the module applied on its own
    op,              \* which one ("none" while the drain is modelled)
    input,           \* its arguments
    output           \* its result, NoOutput until it is applied

vars == << hostBounds, command_buffers, loading, warnings, pc, cur,
           minimum_pause_counter, ret, event, initial, log, last, atEntry, executed,
           popped, calls, undisturbed, made, entered, op, input, output >>

fnVars == << op, input, output >>
drainVars == << hostBounds, command_buffers, loading, warnings, pc, cur,
                minimum_pause_counter, ret, event, initial, log, last, atEntry,
                executed, popped, calls, undisturbed, made, entered >>

\* ------------------------------------------------------------ resolution
\* coord.N - 1 on usize wraps below zero in a build without overflow checks.
Underflows(coord) == \E i \in 1 .. 3 : coord[i] = 0

\* (0..max).contains(&(c - 1)) on every axis; a wrapped c - 1 is usize::MAX,
\* which no range 0..max contains.
InRange(coord, world_size) ==
    \A i \in 1 .. 3 : coord[i] >= 1 /\ coord[i] - 1 < world_size[i]

\* x + y * max_x + z * max_x * max_y over the 0-based x, y, z.
Linear(coord, world_size) ==
    (coord[1] - 1) + (coord[2] - 1) * world_size[1]
        + (coord[3] - 1) * world_size[1] * world_size[2]

\* ByondValue::new_ref(ValueType::Turf, idx): the reference the host hands
\* out for turf index idx.  Whether it is null is the host's answer.
new_ref(idx) == IF idx \in NullTiles THEN NullRef ELSE idx

\* No index: the resolution made no reference.
NoIndex == -1

\* Mutant: the z axis is not checked.
resolve_coord_no_z_check(coord, world_size, checked) ==
    IF Underflows(coord) /\ checked
    THEN [tag |-> "panic", ref |-> NullRef, idx |-> NoIndex]
    ELSE IF \A i \in 1 .. 2 : coord[i] >= 1 /\ coord[i] - 1 < world_size[i]
         THEN [tag |-> "ok", ref |-> new_ref(Linear(coord, world_size)),
               idx |-> Linear(coord, world_size)]
         ELSE [tag |-> "err_oor", ref |-> NullRef, idx |-> NoIndex]

\* checked: the build has overflow checks, so that 0 - 1 panics.
\* idx is the index the reference is made of.
extremely_unsafe_resolve_coord(coord, world_size, checked) ==
    IF Underflows(coord) /\ checked
    THEN [tag |-> "panic", ref |-> NullRef, idx |-> NoIndex]
    ELSE IF InRange(coord, world_size)
         THEN [tag |-> "ok", ref |-> new_ref(Linear(coord, world_size)),
               idx |-> Linear(coord, world_size)]
         ELSE [tag |-> "err_oor", ref |-> NullRef, idx |-> NoIndex]

NoTurfs == [c \in {} |-> NullRef]

\* Mutant: the mapping is cleared whether the bounds changed or not.
check_invalidate_always_clears(ct, world_bounds) ==
    [world_bounds |-> world_bounds, cached_turfs |-> NoTurfs]

\* Mutant: the new bounds are adopted and the mapping is kept.
check_invalidate_keeps_turfs(ct, world_bounds) ==
    [ct EXCEPT !.world_bounds = world_bounds]

check_invalidate(ct, world_bounds) ==
    IF world_bounds # ct.world_bounds
    THEN [world_bounds |-> world_bounds, cached_turfs |-> NoTurfs]
    ELSE ct

\* [tag, ref, ct]: the result and the CachedTurfs after the call.
resolve_coord(ct, coord, checked) ==
    IF coord \in DOMAIN ct.cached_turfs
    THEN [tag |-> "ok", ref |-> ct.cached_turfs[coord], ct |-> ct]
    ELSE LET r == extremely_unsafe_resolve_coord(coord, ct.world_bounds, checked)
         IN  IF r.tag = "ok"
             THEN [tag |-> "ok", ref |-> r.ref,
                   ct |-> [ct EXCEPT !.cached_turfs = (coord :> r.ref) @@ @]]
             ELSE [tag |-> r.tag, ref |-> NullRef, ct |-> ct]

\* CachedTurfs::cache over a set of coordinates, as load does ahead of time;
\* a coordinate that does not resolve is left out.
Precached(world_bounds, coords) ==
    [world_bounds |-> world_bounds,
     cached_turfs |->
        [c \in { c \in coords : InRange(c, world_bounds) } |->
            new_ref(Linear(c, world_bounds))]]

\* ---------------------------------------------------- executing a command
\* Host primitives during which the host runs map code (New, Initialize,
\* ChangeTurf, ...), which may change world.max[x|y|z].
WorldMutating == { "create_or_get_area", "area_contain", "add_turf_to_area",
                   "create_turf", "builtin_new", "apply_preloader" }

\* The primitives that change a tile.
TileMutating == { "area_contain", "add_turf_to_area", "create_turf",
                  "setup_preloader", "builtin_new", "apply_preloader" }

\* The execution context of one command: the buffer, the host's bounds, the
\* trace of calls, and status "run" until the command skips or fails.
\* env = [failAt, nb, checked, tick]: the failAt-th host call fails (0: none),
\* the first world-mutating call leaves the host's bounds at nb, checked is
\* the build's overflow checking, tick the answer of _bapi_helper_tick_check
\* ("exhausted": true, "left": false, "failed": Err).
NewCtx(buf, hb) ==
    [buf |-> buf, host |-> hb, trace |-> <<>>, status |-> "run", n |-> 0,
     resized |-> FALSE, warned |-> 0, turf |-> NullRef, stale |-> FALSE,
     made |-> {}]

\* A host primitive called with `?`.
HostCall(ctx, name, env) ==
    IF ctx.status # "run" THEN ctx
    ELSE IF ctx.n + 1 = env.failAt
         THEN [ctx EXCEPT !.n = @ + 1, !.trace = Append(@, name),
                          !.status = "err_host"]
         ELSE [ctx EXCEPT !.n = @ + 1, !.trace = Append(@, name),
                 !.host = IF name \in WorldMutating /\ ~ctx.resized
                          THEN env.nb ELSE @,
                 !.resized = @ \/ name \in WorldMutating]

\* cached_turfs.resolve_coord(loc)?
Resolve(ctx, loc, env) ==
    IF ctx.status # "run" THEN ctx
    ELSE LET r == resolve_coord(ctx.buf.cached_turfs, loc, env.checked)
         IN  [ctx EXCEPT !.trace = Append(@, "resolve_coord"),
                         !.buf.cached_turfs = r.ct,
                         !.turf = r.ref,
                         !.status = IF r.tag = "ok" THEN "run" ELSE r.tag,
                         !.stale = (ctx.buf.cached_turfs.world_bounds # ctx.host)]

\* Mutant: the null check is missing.
SkipIfNull_missing(ctx, env) == ctx

\* if turf_ref.is_null() { parsed_map.add_warning(..)?; continue; }
SkipIfNull(ctx, env) ==
    IF ctx.status # "run" \/ ctx.turf # NullRef THEN ctx
    ELSE LET h == HostCall(ctx, "add_warning", env)
         IN  IF h.status = "run"
             THEN [h EXCEPT !.status = "skip", !.warned = @ + 1]
             ELSE h

\* convert_vars_list_to_byondlist: host calls only when there are vars.
ConvertVars(ctx, c, env) ==
    IF c.vars THEN HostCall(ctx, "convert_vars", env) ELSE ctx

\* Mutant: the tile is added to the area first, and contained whatever new_z.
ExecCreateArea_contain_last(ctx, c, env) ==
    LET c1 == IF c.path \in DOMAIN ctx.buf.created_areas THEN ctx
              ELSE LET h == HostCall(ctx, "create_or_get_area", env)
                   IN  IF h.status = "run"
                       THEN [h EXCEPT !.buf.created_areas = (c.path :> c.path) @@ @,
                                      !.made = @ \cup { c.path }]
                       ELSE h
        c2 == Resolve(c1, c.loc, env)
        c3 == SkipIfNull(c2, env)
        c4 == HostCall(c3, "add_turf_to_area", env)
    IN  HostCall(c4, "area_contain", env)

\* Mutant: created_areas is not looked up, the area is created every time.
ExecCreateArea_no_cache(ctx, c, env) ==
    LET h == HostCall(ctx, "create_or_get_area", env)
        c1 == IF h.status = "run"
              THEN [h EXCEPT !.buf.created_areas = (c.path :> c.path) @@ @,
                             !.made = @ \cup { c.path }]
              ELSE h
        c2 == Resolve(c1, c.loc, env)
        c3 == SkipIfNull(c2, env)
        c4 == IF ~c.new_z THEN HostCall(c3, "area_contain", env) ELSE c3
    IN  HostCall(c4, "add_turf_to_area", env)

ExecCreateArea(ctx, c, env) ==
    LET c1 == IF c.path \in DOMAIN ctx.buf.created_areas THEN ctx
              ELSE LET h == HostCall(ctx, "create_or_get_area", env)
                   IN  IF h.status = "run"
                       THEN [h EXCEPT !.buf.created_areas = (c.path :> c.path) @@ @,
                                      !.made = @ \cup { c.path }]
                       ELSE h
        c2 == Resolve(c1, c.loc, env)
        c3 == SkipIfNull(c2, env)
        c4 == IF ~c.new_z THEN HostCall(c3, "area_contain", env) ELSE c3
    IN  HostCall(c4, "add_turf_to_area", env)

create_turf(ctx, c, env) ==
    HostCall(ConvertVars(ctx, c, env), "create_turf", env)

ExecCreateTurf(ctx, c, env) ==
    create_turf(SkipIfNull(Resolve(ctx, c.loc, env), env), c, env)

\* Mutant: the preloader is set up after the object is instantiated, and
\* applied only when there are vars.
create_movable_preload_late(ctx, c, env) ==
    LET c1 == IF c.path \in DOMAIN ctx.buf.known_types \/ ctx.status # "run" THEN ctx
              ELSE LET h == HostCall(ctx, "text2path", env)
                   IN  IF h.status = "run"
                       THEN [h EXCEPT !.buf.known_types = (c.path :> c.path) @@ @,
                                      !.made = @ \cup { c.path }]
                       ELSE h
        c2 == HostCall(c1, "builtin_new", env)
    IN  IF c.vars
        THEN HostCall(HostCall(ConvertVars(c2, c, env), "setup_preloader", env),
                      "apply_preloader", env)
        ELSE c2

create_movable(ctx, c, env) ==
    LET c1 == IF c.path \in DOMAIN ctx.buf.known_types \/ ctx.status # "run" THEN ctx
              ELSE LET h == HostCall(ctx, "text2path", env)
                   IN  IF h.status = "run"
                       THEN [h EXCEPT !.buf.known_types = (c.path :> c.path) @@ @,
                                      !.made = @ \cup { c.path }]
                       ELSE h
        c2 == IF c.vars
              THEN HostCall(ConvertVars(c1, c, env), "setup_preloader", env)
              ELSE c1
        c3 == HostCall(c2, "builtin_new", env)
    IN  HostCall(c3, "apply_preloader", env)

ExecCreateAtom(ctx, c, env) ==
    create_movable(SkipIfNull(Resolve(ctx, c.loc, env), env), c, env)

\* match command { .. }
Exec(ctx, c, env) ==
    CASE c.kind = "CreateArea" -> ExecCreateArea(ctx, c, env)
      [] c.kind = "CreateTurf" -> ExecCreateTurf(ctx, c, env)
      [] c.kind = "CreateAtom" -> ExecCreateAtom(ctx, c, env)

\* Mutant: the last command is read and left on the stack.
Pop_peek(commands) ==
    [pos |-> Len(commands), cmd |-> commands[Len(commands)], rest |-> commands]

\* Mutant: the first command is taken instead of the last.
Pop_front(commands) ==
    [pos |-> 1, cmd |-> commands[1], rest |-> Tail(commands)]

\* our_command_buffer.commands.pop(): the index popped and the rest.
Pop(commands) ==
    [pos |-> Len(commands), cmd |-> commands[Len(commands)],
     rest |-> SubSeq(commands, 1, Len(commands) - 1)]

\* Mutant: the modulo is missing, the tick check follows every command.
AtPause_every_command(counter) == counter > 0

\* Mutant: the counter is tested before it is incremented.
AtPause_before_increment(counter) == (counter - 1) % MIN_PAUSE = 0

\* minimum_pause_counter % MIN_PAUSE == 0
AtPause(counter) == counter % MIN_PAUSE = 0

\* Mutant: an index past the end lands on the last parsed map.
get_mut_clamped(id) == IF id \in MapIds THEN id ELSE NumMaps - 1

\* PARSED_MAPS.get_mut(id): the slot, or None.
get_mut(id) == IF id \in MapIds THEN id ELSE NoMap

\* Mutant: the flag is left as it is.
set_loading_missing(flags, id, value) == flags

\* parsed_map.set_loading(value), on the loading flags of the parsed maps.
set_loading(flags, id, value) == [flags EXCEPT ![id] = value]

\* ----------------------------------------------------------------- state
NoBuffers == [k \in {} |-> 0]

Locs(stack) == { CmdTable[stack[i]].loc : i \in 1 .. Len(stack) }

\* The buffer load leaves behind: the stack, no area or type cached, and
\* the turf cache either untouched or filled ahead of time at the bounds
\* load saw.
LoadedBuffers(stack) ==
    { [created_areas |-> NoBuffers, known_types |-> NoBuffers,
       cached_turfs |-> ct, commands |-> stack] :
      ct \in { [world_bounds |-> DefaultBounds, cached_turfs |-> NoTurfs] }
             \cup { Precached(b, Locs(stack)) : b \in BoundsSet } }

NoLast == [trace |-> <<>>, status |-> "none", stale |-> FALSE, turf |-> NullRef,
           warned |-> 0, pos |-> 0, cmd |-> 0, tick |-> "none"]

\* The type paths of the commands.
Paths == { CmdTable[i].path : i \in 1 .. Len(CmdTable) }

NoOutput == [done |-> FALSE]
Output(v) == [done |-> TRUE, val |-> v]

\* The drain's state after load.
DrainInit ==
    /\ hostBounds \in BoundsSet
    /\ initial \in Stacks
    /\ \E buf \in LoadedBuffers(initial) :
          command_buffers =
             [id \in MapIds |-> IF id = 0 THEN (LoadedKey :> buf) ELSE NoBuffers]
    /\ loading = [id \in MapIds |-> id = 0]
    /\ warnings = [id \in MapIds |-> 0]
    /\ pc = "idle"
    /\ cur = [id |-> 0, key |-> LoadedKey]
    /\ minimum_pause_counter = 0
    /\ ret = "none"
    /\ event = "init"
    /\ log = <<>>
    /\ last = NoLast
    /\ atEntry = [world_bounds |-> DefaultBounds, cached_turfs |-> NoTurfs,
                  host |-> DefaultBounds]
    /\ executed = 0
    /\ popped = 0
    /\ calls = 0
    /\ undisturbed = TRUE
    /\ made = [p \in Paths |-> 0]
    /\ entered = 0

Init ==
    /\ DrainInit
    /\ op = "none"
    /\ input = << >>
    /\ output = NoOutput

\* Disturbances by the host inside an invocation (a primitive that fails, a
\* primitive that changes the world's bounds) are explored for the stacks
\* that start small; long stacks are drained by a host that only answers
\* the tick check and resizes the world between invocations.
Small == Len(initial) <= MaxSmall
FailChoices == IF Small THEN 0 .. MaxHostCalls ELSE { 0 }
ResizeChoices == IF Small THEN BoundsSet ELSE { hostBounds }

\* ------------------------------------------------------------- the drain
\* Lines 127-146: the invocation up to the command loop.
Call(id, key) ==
    /\ pc = "idle"
    /\ cur' = [id |-> id, key |-> key]
    /\ last' = NoLast
    /\ executed' = 0
    /\ popped' = 0
    /\ IF get_mut(id) = NoMap
       THEN \* .ok_or_else(|| eyre!("Bad internal index {id:#?}"))?
            /\ ret' = "err_index"
            /\ event' = "call_bad_index"
            /\ UNCHANGED << command_buffers, loading, pc, minimum_pause_counter,
                            atEntry, calls, undisturbed, entered >>
       ELSE IF key \notin DOMAIN command_buffers[get_mut(id)]
       THEN \* no buffer: falls through to set_loading(false) and returns 0
            /\ loading' = set_loading(loading, get_mut(id), FALSE)
            /\ ret' = "Done"
            /\ event' = "call_no_buffer"
            /\ minimum_pause_counter' = 0
            /\ UNCHANGED << command_buffers, pc, atEntry, calls, undisturbed,
                            entered >>
       ELSE \E fail \in FailChoices :
            LET ct == command_buffers[get_mut(id)][key].cached_turfs IN
            /\ atEntry' = [world_bounds |-> ct.world_bounds,
                           cached_turfs |-> ct.cached_turfs, host |-> hostBounds]
            /\ minimum_pause_counter' = 0
            /\ calls' = IF undisturbed THEN calls + 1 ELSE calls
            /\ IF fail = 1
               THEN \* _bapi_helper_get_world_bounds()? fails
                    /\ ret' = "err_host"
                    /\ event' = "call_failed"
                    /\ undisturbed' = FALSE
                    /\ UNCHANGED << command_buffers, pc, entered >>
               ELSE /\ command_buffers' =
                         [command_buffers EXCEPT ![get_mut(id)][key].cached_turfs =
                             check_invalidate(ct, hostBounds)]
                    /\ pc' = "loop"
                    /\ ret' = "none"
                    /\ event' = "call_found"
                    /\ entered' = entered + 1
                    /\ UNCHANGED undisturbed
            /\ UNCHANGED loading
    /\ UNCHANGED << hostBounds, warnings, initial, log, made, fnVars >>

\* What follows a command that ran to its end (lines 219-225): the counter,
\* and the tick check when a batch is full.  [status, trace, counter, tick].
AfterCommand(x, counter, env) ==
    IF ~AtPause(counter + 1)
    THEN [status |-> "next", trace |-> x.trace, counter |-> counter + 1,
          tick |-> "none"]
    ELSE IF env.tick = "failed"
    THEN [status |-> "err_host", trace |-> Append(x.trace, "tick_check"),
          counter |-> counter + 1, tick |-> "failed"]
    ELSE IF env.tick = "exhausted"
    THEN [status |-> "More", trace |-> Append(x.trace, "tick_check"),
          counter |-> 0, tick |-> "exhausted"]
    ELSE [status |-> "next", trace |-> Append(x.trace, "tick_check"),
          counter |-> counter + 1, tick |-> "left"]

\* One iteration of `while let Some(command) = commands.pop()` (147-226).
Step ==
    /\ pc = "loop"
    /\ command_buffers[cur.id][cur.key].commands # <<>>
    /\ LET buf == command_buffers[cur.id][cur.key]
           p == Pop(buf.commands)
           c == CmdTable[p.cmd]
       IN  \E failAt \in FailChoices, nb \in ResizeChoices,
              checked \in (IF Underflows(c.loc) THEN BOOLEAN ELSE { FALSE }),
              tick \in (IF AtPause(minimum_pause_counter + 1)
                        THEN { "exhausted", "left", "failed" } ELSE { "none" }) :
           LET env == [failAt |-> failAt, nb |-> nb, checked |-> checked,
                       tick |-> tick]
               x == Exec(NewCtx([buf EXCEPT !.commands = p.rest], hostBounds),
                         c, env)
               a == IF x.status = "run"
                    THEN AfterCommand(x, minimum_pause_counter, env)
                    ELSE [status |-> x.status, trace |-> x.trace,
                          counter |-> minimum_pause_counter, tick |-> "none"]
               goes == a.status \in { "next", "skip" }
               done == IF x.status = "run" THEN "done" ELSE x.status
           IN  /\ command_buffers' =
                     [command_buffers EXCEPT ![cur.id][cur.key] = x.buf]
               /\ hostBounds' = x.host
               /\ warnings' = [warnings EXCEPT ![cur.id] = @ + x.warned]
               /\ minimum_pause_counter' = a.counter
               /\ pc' = IF goes THEN "loop" ELSE "idle"
               /\ ret' = IF goes THEN "none" ELSE a.status
               /\ event' = "step"
               /\ log' = Append(log, << p.pos, p.cmd, done >>)
               /\ last' = [trace |-> a.trace,
                           status |-> done, stale |-> x.stale, turf |-> x.turf,
                           warned |-> x.warned, pos |-> p.pos, cmd |-> p.cmd,
                           tick |-> a.tick]
               /\ executed' = IF x.status = "run" THEN executed + 1 ELSE executed
               /\ popped' = popped + 1
               /\ undisturbed' = (undisturbed /\ x.status = "run"
                                    /\ a.tick \in { "none", "exhausted" })
               /\ made' = [q \in Paths |-> made[q] + (IF q \in x.made THEN 1 ELSE 0)]
    /\ UNCHANGED << loading, cur, initial, atEntry, calls, entered, fnVars >>

\* Lines 228-238: the stack is empty: remove the buffer, clear loading, 0.
Finish ==
    /\ pc = "loop"
    /\ command_buffers[cur.id][cur.key].commands = <<>>
    /\ command_buffers' =
          [command_buffers EXCEPT ![cur.id] =
              [k \in (DOMAIN @) \ { cur.key } |-> @[k]]]
    /\ \E fail \in FailChoices :
          IF fail = 1
          THEN \* parsed_map.set_loading(false)? fails
               /\ ret' = "err_host"
               /\ UNCHANGED loading
          ELSE /\ ret' = "Done"
               /\ loading' = set_loading(loading, cur.id, FALSE)
    /\ pc' = "idle"
    /\ event' = "finish"
    /\ UNCHANGED << hostBounds, warnings, cur, minimum_pause_counter, initial,
                    log, last, atEntry, executed, popped, calls, undisturbed,
                    made, entered, fnVars >>

\* The host changes world.max[x|y|z] between two invocations.
HostResize(b) ==
    /\ pc = "idle"
    /\ b # hostBounds
    /\ hostBounds' = b
    /\ event' = "resize"
    /\ UNCHANGED << command_buffers, loading, warnings, pc, cur,
                    minimum_pause_counter, ret, initial, log, last, atEntry,
                    executed, popped, calls, undisturbed, made, entered,
                    fnVars >>

Next ==
    \/ \E id \in 0 .. NumMaps, key \in Keys : Call(id, key)
    \/ Step
    \/ Finish
    \/ \E b \in BoundsSet : HostResize(b)

Spec == Init /\ [][Next]_vars

\* ------------------------------------------------ the drain, kept invoked
\* The scheduler (the host's per-tick callback) keeps invoking the drain for
\* the resume key of the loaded buffer for as long as the buffer is
\* resident, and no host primitive fails: an invocation runs its loop to a
\* return, and the next invocation follows.  The host still answers the
\* tick check as it likes and may change the world's bounds.
CallLive ==
    /\ LoadedKey \in DOMAIN command_buffers[0]
    /\ Call(0, LoadedKey)
    /\ ret' # "err_host"

StepLive == Step /\ ret' # "err_host"

FinishLive == Finish /\ ret' # "err_host"

NextLive ==
    \/ CallLive
    \/ StepLive
    \/ FinishLive
    \/ \E b \in BoundsSet : HostResize(b)

\* The steps of NextLive named by what they leave behind: under NextLive a
\* step is Invoked exactly when it is a CallLive step, Iterated exactly when
\* it is a StepLive step (only Step pops) and Finished exactly when it is a
\* FinishLive step, and each is possible exactly where its first line holds.
Invoked ==
    /\ pc = "idle" /\ LoadedKey \in DOMAIN command_buffers[0]
    /\ event' = "call_found"

Iterated ==
    /\ pc = "loop" /\ command_buffers[cur.id][cur.key].commands # <<>>
    /\ popped' = popped + 1

Finished ==
    /\ pc = "loop" /\ command_buffers[cur.id][cur.key].commands = <<>>
    /\ event' = "finish"

\* Fairness: the scheduler invokes the drain again while the buffer is
\* resident, the `while let` loop takes its next iteration, and the code
\* after the loop runs once the stack is empty.
SpecLive ==
    /\ Init
    /\ [][NextLive]_vars
    /\ WF_event(Invoked) /\ WF_popped(Iterated) /\ WF_event(Finished)

\* ------------------------------------------ functions applied on their own
\* The functions of the module that the drain calls, applied once to an
\* argument drawn by InitFn; no buffer is loaded and no drain runs.
Parked ==
    /\ hostBounds = DefaultBounds
    /\ initial = << >>
    /\ command_buffers = [id \in MapIds |-> NoBuffers]
    /\ loading = [id \in MapIds |-> FALSE]
    /\ warnings = [id \in MapIds |-> 0]
    /\ pc = "idle"
    /\ cur = [id |-> 0, key |-> LoadedKey]
    /\ minimum_pause_counter = 0
    /\ ret = "none"
    /\ event = "init"
    /\ log = << >>
    /\ last = NoLast
    /\ atEntry = [world_bounds |-> DefaultBounds, cached_turfs |-> NoTurfs,
                  host |-> DefaultBounds]
    /\ executed = 0
    /\ popped = 0
    /\ calls = 0
    /\ undisturbed = TRUE
    /\ made = [p \in Paths |-> 0]
    /\ entered = 0

\* ---- literals and their conversion to host values
\* A Literal: kind, what it holds (id), whether the host fails the call that
\* converts it (bad), and for List / AssocList the elements / pairs.
Leaf(kind, id, bad) == [kind |-> kind, id |-> id, bad |-> bad, items |-> << >>]
ListLit(items) == [kind |-> "List", id |-> 0, bad |-> FALSE, items |-> items]
AssocLit(pairs) == [kind |-> "AssocList", id |-> 0, bad |-> FALSE, items |-> pairs]
Pair(k, v) == [key |-> k, val |-> v]

\* A host value; a host list is the sequence of entries written to it.
Value(kind, id, items) == [kind |-> kind, id |-> id, items |-> items]
NullValue == Value("null", 0, << >>)
Entry(k, v) == [key |-> k, val |-> v]

\* The result of a conversion: Ok(value) or Err, and the warnings added to
\* the parsed map so far.
Ok(v, warns) == [tag |-> "ok", val |-> v, warns |-> warns]
Err(warns) == [tag |-> "err", val |-> NullValue, warns |-> warns]

\* env = [badNew, badPush, badWarn]: the host fails new_list, fails
\* push_list / write_list_index, fails add_warning.
\* parsed_map.add_warning(..)? inside a loop over acc = [tag, items, warns].
Warn(acc, what, env) ==
    IF env.badWarn THEN [acc EXCEPT !.tag = "err"]
    ELSE [acc EXCEPT !.warns = Append(@, what)]

\* list.push_list(item)? and list.write_list_index(key, val)?
Push(acc, entry, env) ==
    IF env.badPush THEN [acc EXCEPT !.tag = "err"]
    ELSE [acc EXCEPT !.items = Append(@, entry)]

\* Mutant: the error of an element is propagated.
ListElemErr_propagates(acc, env) == [acc EXCEPT !.tag = "err"]

\* Err(e) => { parsed_map.add_warning(..)?; }
ListElemErr(acc, env) == Warn(acc, "list", env)

RECURSIVE convert_literal_to_byondvalue(_, _, _)
RECURSIVE ListLoop(_, _, _, _)
RECURSIVE AssocLoop(_, _, _, _)

\* for literal in l { match convert_literal_to_byondvalue(..) { .. } }
ListLoop(items, i, acc, env) ==
    IF i > Len(items) \/ acc.tag = "err" THEN acc
    ELSE LET r == convert_literal_to_byondvalue(items[i], acc.warns, env)
             a1 == [acc EXCEPT !.warns = r.warns]
         IN  ListLoop(items, i + 1,
                      IF r.tag = "ok" THEN Push(a1, Entry(NullValue, r.val), env)
                      ELSE ListElemErr(a1, env),
                      env)

\* for (list_key, list_val) in map.iter() { .. }: both are converted, then
\* (Ok, Ok) writes, (Err, _) warns about the key, (_, Err) about the value.
AssocLoop(pairs, i, acc, env) ==
    IF i > Len(pairs) \/ acc.tag = "err" THEN acc
    ELSE LET k == convert_literal_to_byondvalue(pairs[i].key, acc.warns, env)
             v == convert_literal_to_byondvalue(pairs[i].val, k.warns, env)
             a1 == [acc EXCEPT !.warns = v.warns]
         IN  AssocLoop(pairs, i + 1,
                       IF k.tag = "ok" /\ v.tag = "ok"
                       THEN Push(a1, Entry(k.val, v.val), env)
                       ELSE IF k.tag = "err" THEN Warn(a1, "assoc_key", env)
                       ELSE Warn(a1, "assoc_val", env),
                       env)

\* warns: the warnings added before the call.
convert_literal_to_byondvalue(lit, warns, env) ==
    CASE lit.kind \in { "Number", "Null" } ->
            Ok(Value(lit.kind, lit.id, << >>), warns)
      [] lit.kind \in { "String", "Path", "File" } ->
            IF lit.bad THEN Err(warns)
            ELSE Ok(Value(lit.kind, lit.id, << >>), warns)
      [] lit.kind = "Fallback" ->
            IF env.badWarn THEN Err(warns)
            ELSE IF lit.bad THEN Err(Append(warns, "fallback"))
            ELSE Ok(Value("String", lit.id, << >>), Append(warns, "fallback"))
      [] lit.kind = "List" ->
            IF env.badNew THEN Err(warns)
            ELSE LET a == ListLoop(lit.items, 1,
                             [tag |-> "ok", items |-> << >>, warns |-> warns], env)
                 IN  IF a.tag = "ok" THEN Ok(Value("list", 0, a.items), a.warns)
                     ELSE Err(a.warns)
      [] lit.kind = "AssocList" ->
            IF env.badNew THEN Err(warns)
            ELSE LET a == AssocLoop(lit.items, 1,
                             [tag |-> "ok", items |-> << >>, warns |-> warns], env)
                 IN  IF a.tag = "ok" THEN Ok(Value("list", 0, a.items), a.warns)
                     ELSE Err(a.warns)

RECURSIVE VarsLoop(_, _, _, _)
\* for (key, literal) in vars { convert(..)?; write_list_index(new_str(key)?, ..)? }
VarsLoop(list, i, acc, env) ==
    IF i > Len(list) \/ acc.tag = "err" THEN acc
    ELSE LET r == convert_literal_to_byondvalue(list[i].lit, acc.warns, env)
             a1 == [acc EXCEPT !.warns = r.warns]
         IN  VarsLoop(list, i + 1,
                      IF r.tag = "ok"
                      THEN Push(a1, Entry(Value("String", list[i].name, << >>), r.val),
                                env)
                      ELSE [a1 EXCEPT !.tag = "err"],
                      env)

\* vars_opt = [some, list]: Option<Vec<(&str, Literal)>>.
convert_vars_list_to_byondlist(vars_opt, env) ==
    IF ~vars_opt.some THEN Ok(NullValue, << >>)
    ELSE IF env.badNew THEN Err(<< >>)
    ELSE LET a == VarsLoop(vars_opt.list, 1,
                     [tag |-> "ok", items |-> << >>, warns |-> << >>], env)
         IN  IF a.tag = "ok" THEN Ok(Value("list", 0, a.items), a.warns)
             ELSE Err(a.warns)

\* The literals the conversion is applied to.
SeqsUpTo(S, n) == UNION { [1 .. k -> S] : k \in 0 .. n }
Num == Leaf("Number", 1, FALSE)
PathOk == Leaf("Path", 1, FALSE)
PathBad == Leaf("Path", 2, TRUE)
Leaves == { Num, PathOk, PathBad, Leaf("Fallback", 3, FALSE) }
Elems == Leaves \cup { ListLit(<< PathBad, Num >>),
                       AssocLit(<< Pair(PathBad, Num) >>) }
Pairs == { Pair(k, v) : k \in { Num, PathOk, PathBad },
                        v \in { Num, PathBad, ListLit(<< PathBad, Num >>) } }
TopLists == { ListLit(l) : l \in SeqsUpTo(Elems, MaxElems) }
TopAssocs == { AssocLit(l) : l \in SeqsUpTo(Pairs, MaxElems - 1) }
Var(name, lit) == [name |-> name, lit |-> lit]
VarsInputs ==
    { [some |-> FALSE, list |-> << >>] }
    \cup { [some |-> TRUE, list |-> << Var(1, l) >>] :
             l \in Leaves \cup TopLists \cup TopAssocs }
    \cup { [some |-> TRUE, list |-> << Var(1, l), Var(2, m) >>] :
             l \in Leaves \cup { ListLit(e) : e \in SeqsUpTo(Elems, 1) },
             m \in Leaves \cup { ListLit(<< PathBad >>) } }
ConvertInputs ==
    [vars : VarsInputs,
     env : [badNew : BOOLEAN, badPush : BOOLEAN, badWarn : BOOLEAN]]

\* ---- the prefab table of a map text (dmm_lite::prefabs)
\* A map text is a sequence of tokens: punctuation ("quote", "eq", "lp",
\* "rp", "lb", "rb", "comma"), white space ("sp", "tab", "nl") and words
\* (keys, type paths, variable names, literal texts).
KeyWords == { "aaa", "aab" }
PathWords == { "/turf/space", "/area/space" }
NameWords == { "name", "dir" }

\* Mutant: only the space is white space.
IsWs_space_only(t) == t = "sp"

IsWs(t) == t \in { "sp", "tab", "nl" }

\* The first position from i on that holds no white space.
SkipWs(text, i) ==
    LET stops == { j \in i .. (Len(text) + 1) : j > Len(text) \/ ~IsWs(text[j]) }
    IN  CHOOSE j \in stops : \A k \in stops : j <= k

At_(text, i, t) == i <= Len(text) /\ text[i] = t

\* get_prefab_locations: where an entry begins: at the start of a line, a
\* quoted key followed by `=`.
get_prefab_locations(text) ==
    LET starts == { i \in 1 .. Len(text) :
                      /\ (i = 1 \/ text[i - 1] = "nl")
                      /\ text[i] = "quote"
                      /\ i + 2 <= Len(text)
                      /\ text[i + 1] \in KeyWords /\ text[i + 2] = "quote"
                      /\ At_(text, SkipWs(text, i + 3), "eq") }
    IN  starts

ParseFail == [ok |-> FALSE, next |-> 0]

\* A prefab clause: a type path and, optionally, a brace-delimited
\* variable block, kept as the text between and including the braces.
ParsePrefab(text, i) ==
    IF ~(i <= Len(text) /\ text[i] \in PathWords) THEN ParseFail
    ELSE IF At_(text, i + 1, "lb")
    THEN LET closes == { j \in (i + 2) .. Len(text) : text[j] = "rb" }
         IN  IF closes = {} THEN ParseFail
             ELSE LET j == CHOOSE j \in closes : \A k \in closes : j <= k
                  IN  [ok |-> TRUE, next |-> j + 1, path |-> text[i],
                       block |-> [some |-> TRUE, raw |-> SubSeq(text, i + 1, j)]]
    ELSE [ok |-> TRUE, next |-> i + 1, path |-> text[i],
          block |-> [some |-> FALSE, raw |-> << >>]]

RECURSIVE ParsePrefabs(_, _, _)
\* One or more prefab clauses separated by commas, up to the closing `)`.
ParsePrefabs(text, i, acc) ==
    LET q == ParsePrefab(text, SkipWs(text, i)) IN
    IF ~q.ok THEN ParseFail
    ELSE LET k == SkipWs(text, q.next)
             got == Append(acc, [path |-> q.path, block |-> q.block])
         IN  IF At_(text, k, "comma") THEN ParsePrefabs(text, k + 1, got)
             ELSE IF At_(text, k, "rp")
             THEN [ok |-> TRUE, next |-> k + 1, prefabs |-> got]
             ELSE ParseFail

\* parse_prefab_line: "key" = ( prefab, ... ) from position i.
parse_prefab_line(text, i) ==
    IF ~(At_(text, i, "quote") /\ i + 2 <= Len(text)
           /\ text[i + 1] \in KeyWords /\ text[i + 2] = "quote")
    THEN ParseFail
    ELSE LET e == SkipWs(text, i + 3)
             l == SkipWs(text, e + 1)
         IN  IF ~(At_(text, e, "eq") /\ At_(text, l, "lp")) THEN ParseFail
             ELSE LET ps == ParsePrefabs(text, l + 1, << >>)
                  IN  IF ps.ok
                      THEN [ok |-> TRUE, next |-> ps.next, key |-> text[i + 1],
                            prefabs |-> ps.prefabs]
                      ELSE ParseFail

Lit(kind, text) == [kind |-> kind, text |-> text]

\* A literal at position i; what matches no literal grammar is a Fallback
\* holding the raw text.
ParseLiteral(text, i) ==
    IF At_(text, i, "quote") /\ At_(text, i + 2, "quote")
    THEN [next |-> i + 3, lit |-> Lit("String", text[i + 1])]
    ELSE [next |-> i + 1,
          lit |-> CASE text[i] = "1" -> Lit("Number", text[i])
                    [] text[i] = "null" -> Lit("Null", text[i])
                    [] text[i] \in PathWords -> Lit("Path", text[i])
                    [] OTHER -> Lit("Fallback", text[i])]

RECURSIVE ParseVars(_, _, _)
\* The `name = literal` assignments of a variable block, separated by
\* commas or line ends, up to the closing brace.
ParseVars(raw, i, acc) ==
    LET n == SkipWs(raw, i) IN
    IF At_(raw, n, "rb") THEN [ok |-> TRUE, list |-> acc]
    ELSE IF At_(raw, n, "comma") THEN ParseVars(raw, n + 1, acc)
    ELSE IF ~(n <= Len(raw) /\ raw[n] \in NameWords) THEN [ok |-> FALSE, list |-> acc]
    ELSE LET e == SkipWs(raw, n + 1)
             v == SkipWs(raw, e + 1)
         IN  IF ~At_(raw, e, "eq") \/ v > Len(raw) \/ raw[v] = "rb"
             THEN [ok |-> FALSE, list |-> acc]
             ELSE LET l == ParseLiteral(raw, v)
                  IN  ParseVars(raw, l.next,
                                Append(acc, [name |-> raw[n], lit |-> l.lit]))

\* The structured entry: key and prefabs (type path, vars) of the entry at i.
ParseEntry(text, i) ==
    LET line == parse_prefab_line(text, i) IN
    IF ~line.ok THEN [ok |-> FALSE]
    ELSE LET vs == [k \in 1 .. Len(line.prefabs) |->
                      IF line.prefabs[k].block.some
                      THEN ParseVars(line.prefabs[k].block.raw, 2, << >>)
                      ELSE [ok |-> TRUE, list |-> << >>]]
         IN  IF \E k \in 1 .. Len(vs) : ~vs[k].ok THEN [ok |-> FALSE]
             ELSE [ok |-> TRUE, key |-> line.key,
                   prefabs |-> [k \in 1 .. Len(vs) |->
                                  [path |-> line.prefabs[k].path,
                                   vars |-> [some |-> line.prefabs[k].block.some,
                                             list |-> vs[k].list]]]]

\* The positions of a set of positions, in increasing order.
RECURSIVE Sorted(_)
Sorted(S) ==
    IF S = {} THEN << >>
    ELSE LET m == CHOOSE m \in S : \A k \in S : m <= k
         IN  << m >> \o Sorted(S \ { m })

\* What the prefab-table parser makes of a text: the entries found, each
\* parsed, and the variable blocks as parse_prefab_line returns them.
ParseTable(text) ==
    LET locs == Sorted(get_prefab_locations(text)) IN
    [count |-> Len(locs),
     entries |-> [k \in 1 .. Len(locs) |-> ParseEntry(text, locs[k])],
     lines |-> [k \in 1 .. Len(locs) |-> parse_prefab_line(text, locs[k])]]

\* ---- a prefab table written in either dialect
RECURSIVE Join(_, _)
Join(parts, sep) ==
    IF parts = << >> THEN << >>
    ELSE IF Len(parts) = 1 THEN parts[1]
    ELSE parts[1] \o sep \o Join(Tail(parts), sep)

WriteLit(l) ==
    IF l.kind = "String" THEN << "quote", l.text, "quote" >> ELSE << l.text >>
WriteVar(v) == << v.name, "sp", "eq", "sp" >> \o WriteLit(v.lit)

\* tgm: one clause and one assignment per line, the block folded as
\* `{`, line end, tab, .., line end, tab, `}`.
WritePrefab(pf, tgm) ==
    << pf.path >>
    \o (IF ~pf.vars.some THEN << >>
        ELSE LET vs == [k \in 1 .. Len(pf.vars.list) |-> WriteVar(pf.vars.list[k])]
             IN  IF tgm
                 THEN << "lb", "nl", "tab" >> \o Join(vs, << "comma", "nl", "tab" >>)
                      \o << "nl", "tab", "rb" >>
                 ELSE << "lb" >> \o Join(vs, << "comma", "sp" >>) \o << "rb" >>)

WriteEntry(e, tgm) ==
    LET ps == [k \in 1 .. Len(e.prefabs) |-> WritePrefab(e.prefabs[k], tgm)] IN
    << "quote", e.key, "quote", "sp", "eq", "sp", "lp" >>
    \o (IF tgm THEN << "nl" >> \o Join(ps, << "comma", "nl" >>)
        ELSE Join(ps, << "comma" >>))
    \o << "rp", "nl" >>

\* The table, a blank line, and the grid section `(1,1,1) = {"` rows `"}`.
WriteMap(table, tgm) ==
    Join([k \in 1 .. Len(table) |-> WriteEntry(table[k], tgm)], << >>)
    \o << "nl", "lp", "1,1,1", "rp", "sp", "eq", "sp", "lb", "quote", "nl",
          "aaa", "nl", "quote", "rb", "nl" >>

VarLists ==
    { << >>,
      << [name |-> "name", lit |-> Lit("String", "meow")] >>,
      << [name |-> "name", lit |-> Lit("Number", "1")],
         [name |-> "dir", lit |-> Lit("Fallback", "junk")] >> }
PrefabSet ==
    { [path |-> q, vars |-> [some |-> FALSE, list |-> << >>]] : q \in PathWords }
    \cup { [path |-> q, vars |-> [some |-> TRUE, list |-> l]] :
             q \in PathWords, l \in VarLists }
EntrySet ==
    { [key |-> k, prefabs |-> ps] :
         k \in KeyWords,
         ps \in UNION { [1 .. n -> PrefabSet] : n \in 1 .. MaxPrefabs } }
\* The fixture of the tests: "aaa" = (/turf/space{name = "meow"},/area/space)
Fixture ==
    [key |-> "aaa",
     prefabs |-> << [path |-> "/turf/space",
                     vars |-> [some |-> TRUE,
                               list |-> << [name |-> "name",
                                            lit |-> Lit("String", "meow")] >>]],
                    [path |-> "/area/space",
                     vars |-> [some |-> FALSE, list |-> << >>]] >>]
TableInputs ==
    { << e >> : e \in EntrySet }
    \cup { << e, Fixture >> : e \in EntrySet }
    \cup { << Fixture, e, Fixture >> : e \in EntrySet }

Sizes == (0 .. MaxDim) \X (0 .. MaxDim) \X (0 .. MaxDim)
Coords == (0 .. MaxDim + 1) \X (0 .. MaxDim + 1) \X (0 .. MaxDim + 1)

ResolveInputs == [coord : Coords, world_size : Sizes, checked : BOOLEAN]

\* A CachedTurfs as load or an earlier drain left it, and the bounds the
\* host reports.
InvalidateInputs ==
    [ct : { [world_bounds |-> DefaultBounds, cached_turfs |-> NoTurfs] }
          \cup { Precached(b, cs) :
                   b \in BoundsSet,
                   cs \in SUBSET { << 1, 1, 1 >>, << 2, 1, 1 >>, << 3, 1, 1 >> } },
     host : BoundsSet \cup { DefaultBounds }]

InitFn ==
    /\ Parked
    /\ \/ op = "resolve" /\ input \in ResolveInputs
       \/ op = "invalidate" /\ input \in InvalidateInputs
       \/ op = "convert" /\ input \in ConvertInputs
       \/ op = "parse" /\ input \in TableInputs
    /\ output = NoOutput

\* extremely_unsafe_resolve_coord(coord, world_size)
ResolveOp ==
    /\ op = "resolve" /\ ~output.done
    /\ output' = Output(extremely_unsafe_resolve_coord(
                            input.coord, input.world_size, input.checked))
    /\ UNCHANGED << op, input, drainVars >>

\* cached_turfs.check_invalidate(), and the same call made again.
InvalidateOp ==
    /\ op = "invalidate" /\ ~output.done
    /\ LET once == check_invalidate(input.ct, input.host)
       IN  output' = Output([once |-> once,
                             twice |-> check_invalidate(once, input.host)])
    /\ UNCHANGED << op, input, drainVars >>

\* convert_vars_list_to_byondlist(parsed_map, vars)
ConvertOp ==
    /\ op = "convert" /\ ~output.done
    /\ output' = Output(convert_vars_list_to_byondlist(input.vars, input.env))
    /\ UNCHANGED << op, input, drainVars >>

\* The prefab table of a map written in the legacy and in the TGM dialect.
ParseOp ==
    /\ op = "parse" /\ ~output.done
    /\ output' = Output([legacy |-> ParseTable(WriteMap(input, FALSE)),
                         tgm |-> ParseTable(WriteMap(input, TRUE))])
    /\ UNCHANGED << op, input, drainVars >>

NextFn ==
    \/ ResolveOp
    \/ InvalidateOp
    \/ ConvertOp
    \/ ParseOp

SpecFn == InitFn /\ [][NextFn]_vars

\* ================================================================ claims
Resident == LoadedKey \in DOMAIN command_buffers[0]
Buf == command_buffers[0][LoadedKey]
CeilDiv(n, k) == (n + k - 1) \div k
Has(trace, name) == \E i \in 1 .. Len(trace) : trace[i] = name
Count(trace, name) == Cardinality({ i \in 1 .. Len(trace) : trace[i] = name })
\* The calls of a trace that come after its resolve_coord.
AfterResolve(trace) ==
    LET i == CHOOSE i \in 1 .. Len(trace) : trace[i] = "resolve_coord"
    IN  SubSeq(trace, i + 1, Len(trace))
LastCmd == CmdTable[last.cmd]
\* Where name is called in a trace that calls it once.
At(trace, name) == CHOOSE i \in 1 .. Len(trace) : trace[i] = name
\* The last loop iteration resolved a tile reference that is not null.
OnTile(kind) ==
    /\ event = "step" /\ LastCmd.kind = kind
    /\ Has(last.trace, "resolve_coord")
    /\ last.status \in { "done", "err_host" } /\ last.turf # NullRef

\* C1: with N >= 1 commands, none skipped, none failing, and a host that
\* reports the tick budget exhausted at every consultation, the invocation
\* that returns Done is the ceil(N / MIN_PAUSE)-th one, for every N.
C1_ResumabilityCount ==
    (undisturbed /\ pc = "idle" /\ ret = "Done" /\ ~Resident)
        => calls = CeilDiv(Len(initial), MIN_PAUSE)

\* C2: every command of the stack is popped and dispatched exactly once, in
\* stack order (last pushed first) across all invocations: the dispatch log
\* followed by what is left on the stack is the loaded stack from its top.
C2_ExactlyOnceInOrder ==
    LET n == Len(initial) IN
    /\ Len(log) <= n
    /\ \A j \in 1 .. Len(log) :
          log[j][1] = n + 1 - j /\ log[j][2] = initial[n + 1 - j]
    /\ Resident => Buf.commands = SubSeq(initial, 1, n - Len(log))
    /\ ~Resident => Len(log) = n

C2_Witness ==
    /\ ~Resident /\ ret = "Done" /\ event = "finish"
    /\ Len(log) = Len(initial) /\ Len(initial) > MIN_PAUSE
    /\ \E i, j \in 1 .. Len(initial) : initial[i] # initial[j]

\* C3: at the return of a drain invocation that reports Done or
\* MoreWorkPending, the buffer is resident if and only if its stack is not
\* empty (it is removed by the invocation that pops the last command).
C3_RemovedExactlyWhenEmpty ==
    (pc = "idle" /\ event \in { "step", "finish" } /\ ret \in { "Done", "More" })
        => (Resident => Buf.commands # <<>>)

\* C4: an invocation for a resume key with no resident buffer fails; it
\* reports neither Done nor MoreWorkPending.
C4_UnknownKeyFails ==
    event = "call_no_buffer" => ret \notin { "Done", "More" }

\* C5: an invocation whose internal index is not in PARSED_MAPS returns the
\* "Bad internal index" error and changes no buffer, cache, flag, warning
\* list or host state, and dispatches nothing.
C5_UnknownSession ==
    [][ (pc = "idle" /\ event' \in { "call_bad_index", "call_no_buffer",
                                      "call_found", "call_failed" }
           /\ cur'.id \notin MapIds)
        => /\ event' = "call_bad_index"
           /\ ret' = "err_index"
           /\ pc' = "idle"
           /\ UNCHANGED << command_buffers, loading, warnings, hostBounds,
                           log, minimum_pause_counter >> ]_vars

C5_Witness ==
    /\ event = "call_bad_index" /\ ret = "err_index"
    /\ Resident /\ Buf.commands # <<>> /\ Len(log) > 0
    /\ loading[0]

\* Outside the bounds on some axis (0 is outside: coordinates are 1-based).
Outside(loc, bounds) == \E i \in 1 .. 3 : loc[i] < 1 \/ loc[i] > bounds[i]

\* C6: when the loc of the popped command lies outside the cached world
\* bounds, the invocation ends at that command's resolution with an error,
\* whatever the command's kind: nothing is done to a tile and no further
\* command is dispatched by the invocation.
C6_OutOfRangeFatal ==
    (event = "step" /\ Has(last.trace, "resolve_coord")
       /\ Outside(LastCmd.loc, Buf.cached_turfs.world_bounds))
    => /\ pc = "idle"
       /\ ret \in { "err_oor", "panic" }
       /\ last.status = ret
       /\ AfterResolve(last.trace) = <<>>
       /\ log[Len(log)] = << last.pos, last.cmd, ret >>
       /\ Len(Buf.commands) = last.pos - 1

C6_Witness ==
    /\ event = "step" /\ ret = "err_oor"
    /\ \A k \in { "CreateArea", "CreateTurf", "CreateAtom" } :
          \E j \in 1 .. Len(log) :
             log[j][3] = "err_oor" /\ CmdTable[log[j][2]].kind = k
    /\ Resident /\ Buf.commands = <<>>

\* C7: when the resolved tile reference of the popped command is null, no
\* tile-mutating primitive is called for it, the only call after the
\* resolution is the warning, and (the warning primitive not failing)
\* exactly one warning is recorded and the loop goes on to the next command.
C7_NullTileSkipped ==
    (event = "step" /\ Has(last.trace, "resolve_coord")
       /\ last.status \notin { "err_oor", "panic" } /\ last.turf = NullRef)
    => /\ AfterResolve(last.trace) = << "add_warning" >>
       /\ \A i \in 1 .. Len(last.trace) : last.trace[i] \notin TileMutating
       /\ last.status \in { "skip", "err_host" }
       /\ last.status = "skip" =>
             /\ last.warned = 1
             /\ pc = "loop" /\ ret = "none"
             /\ Resident /\ Len(Buf.commands) = last.pos - 1

C7_Witness ==
    /\ event = "step" /\ last.status = "skip" /\ last.turf = NullRef
    /\ pc = "loop" /\ warnings[0] >= 2 /\ popped >= 3 /\ executed >= 1
    /\ Buf.commands # <<>>

\* C8: when the host's bounds B2 at the start of a drain differ from the
\* cached bounds B1, then before any coordinate is resolved the mapping is
\* empty and the cached bounds are B2; the first resolution of a coordinate
\* that was cached under B1 is computed from B2 (or is out of range).
C8_InvalidateOnBoundsChange ==
    /\ (event = "call_found" /\ atEntry.host # atEntry.world_bounds)
       => /\ DOMAIN Buf.cached_turfs.cached_turfs = {}
          /\ Buf.cached_turfs.world_bounds = atEntry.host
    /\ (event = "step" /\ popped = 1 /\ atEntry.host # atEntry.world_bounds
          /\ Has(last.trace, "resolve_coord")
          /\ LastCmd.loc \in DOMAIN atEntry.cached_turfs)
       => IF Outside(LastCmd.loc, atEntry.host)
          THEN last.status \in { "err_oor", "panic" }
          ELSE last.turf = new_ref(Linear(LastCmd.loc, atEntry.host))

C8_Witness ==
    /\ event = "step" /\ popped = 1 /\ last.status = "done"
    /\ atEntry.world_bounds \in BoundsSet /\ atEntry.host # atEntry.world_bounds
    /\ LastCmd.loc \in DOMAIN atEntry.cached_turfs
    /\ atEntry.cached_turfs[LastCmd.loc] # last.turf

\* C9: at every resolve_coord call of a drain the cached world_bounds equal
\* the host's current bounds.
C9_NoStaleRead ==
    (event = "step" /\ Has(last.trace, "resolve_coord")) => ~last.stale

\* C10: MoreWorkPending is returned only right after a command that ran to
\* its end, when the number of commands executed by the invocation is a
\* positive multiple of MIN_PAUSE and the tick check then consulted reported
\* exhaustion; the tick check is consulted nowhere else.
C10_SuspendAtBatchBoundary ==
    /\ ret = "More" =>
          /\ pc = "idle"
          /\ last.status = "done" /\ last.tick = "exhausted"
          /\ executed > 0 /\ executed % MIN_PAUSE = 0
    /\ event = "step" =>
          Count(last.trace, "tick_check") =
             (IF last.status = "done" /\ executed > 0 /\ executed % MIN_PAUSE = 0
              THEN 1 ELSE 0)
    /\ Has(last.trace, "tick_check") =>
          /\ last.trace[Len(last.trace)] = "tick_check"
          /\ last.tick # "none"

C10_Witness ==
    /\ ret = "More" /\ event = "step" /\ executed = 2 * MIN_PAUSE
    /\ Resident /\ Buf.commands # <<>>

\* C12: while every tick check of the invocation has answered exhausted
\* (none was consulted yet, or the first one just ended the invocation), the
\* invocation has popped at most one batch of MIN_PAUSE commands, whatever
\* the stack holds (executed and null-tile-skipped commands alike).
C12_WorkBound ==
    (executed < MIN_PAUSE \/ (executed = MIN_PAUSE /\ ret = "More"))
        => popped <= MIN_PAUSE

\* C13: for world bounds (mx,my,mz) and a coordinate (x,y,z), the resolution
\* yields the reference of index (x-1) + (y-1)*mx + (z-1)*mx*my exactly when
\* 1<=x<=mx, 1<=y<=my, 1<=z<=mz, and otherwise (a component 0 included)
\* yields the out-of-range error and no reference; within bounds the index
\* is smaller than mx*my*mz and differs from that of every other coordinate.
C13_Linearization ==
    (op = "resolve" /\ output.done) =>
        LET c == input.coord
            w == input.world_size
            r == output.val
            Inside(d) == \A i \in 1 .. 3 : 1 <= d[i] /\ d[i] <= w[i]
        IN  IF Inside(c)
            THEN /\ r.tag = "ok"
                 /\ r.idx = (c[1] - 1) + (c[2] - 1) * w[1]
                               + (c[3] - 1) * w[1] * w[2]
                 /\ r.ref = new_ref(r.idx)
                 /\ 0 <= r.idx /\ r.idx < w[1] * w[2] * w[3]
                 /\ \A d \in Coords :
                       (d # c /\ Inside(d)) =>
                          extremely_unsafe_resolve_coord(d, w, input.checked).idx
                             # r.idx
            ELSE /\ r.tag = "err_oor"
                 /\ r.ref = NullRef /\ r.idx = NoIndex

\* C14: a second check_invalidate under the same host bounds leaves
\* world_bounds and the mapping as the first call left them, and a call made
\* when the host bounds equal the cached bounds changes neither.
C14_InvalidateIdempotent ==
    (op = "invalidate" /\ output.done) =>
        /\ output.val.twice = output.val.once
        /\ output.val.once.world_bounds = input.host
        /\ (input.host = input.ct.world_bounds) => output.val.once = input.ct

C14_Witness ==
    /\ op = "invalidate" /\ output.done
    /\ input.host # input.ct.world_bounds
    /\ DOMAIN input.ct.cached_turfs # {}
    /\ DOMAIN output.val.once.cached_turfs = {}
    /\ output.val.twice = output.val.once

\* C15: while the buffer is resident no entry of created_areas or
\* known_types is removed or changed, whatever happens to the turf cache; an
\* area or a type path is created (create_or_get_area, text2path of
\* create_movable succeeding) only for a path that has no entry, hence at
\* most once per path.
C15_AppendOnlyCaches ==
    [][ (Resident /\ Resident') =>
           /\ \A q \in DOMAIN Buf.created_areas :
                 /\ q \in DOMAIN Buf'.created_areas
                 /\ Buf'.created_areas[q] = Buf.created_areas[q]
           /\ \A q \in DOMAIN Buf.known_types :
                 /\ q \in DOMAIN Buf'.known_types
                 /\ Buf'.known_types[q] = Buf.known_types[q]
           /\ \A q \in Paths :
                 /\ made'[q] <= 1
                 /\ made'[q] # made[q] =>
                       /\ q \notin DOMAIN Buf.created_areas
                       /\ q \notin DOMAIN Buf.known_types
                       /\ q \in DOMAIN Buf'.created_areas
                               \cup DOMAIN Buf'.known_types ]_vars

C15_Witness ==
    /\ event = "step" /\ last.status = "done" /\ Resident
    /\ atEntry.world_bounds \in BoundsSet /\ atEntry.host # atEntry.world_bounds
    /\ LastCmd.kind = "CreateArea"
    /\ ~Has(last.trace, "create_or_get_area")
    /\ LastCmd.path \in DOMAIN Buf.created_areas /\ made[LastCmd.path] = 1
    /\ \E q \in DOMAIN Buf.known_types : made[q] = 1

\* C16: for a CreateArea command whose tile reference is not null: when the
\* command runs to its end add_turf_to_area is called exactly once, and
\* area_contain exactly once and before it when new_z is false; when a host
\* call fails the command stops there, and what was called is a prefix of
\* that sequence; area_contain is never called when new_z is true.
C16_CreateAreaOrder ==
    OnTile("CreateArea") =>
        LET t == AfterResolve(last.trace)
            calls_ == IF last.tick = "none" THEN t ELSE SubSeq(t, 1, Len(t) - 1)
            full == IF LastCmd.new_z THEN << "add_turf_to_area" >>
                    ELSE << "area_contain", "add_turf_to_area" >>
        IN  /\ last.status = "done" => calls_ = full
            /\ last.status = "err_host" =>
                  /\ Len(calls_) <= Len(full)
                  /\ calls_ = SubSeq(full, 1, Len(calls_))
            /\ LastCmd.new_z => ~Has(last.trace, "area_contain")

C16_Witness ==
    /\ OnTile("CreateArea") /\ last.status = "done" /\ ~LastCmd.new_z
    /\ \E j \in 1 .. (Len(log) - 1) :
          log[j][3] = "done" /\ CmdTable[log[j][2]].kind = "CreateArea"
    /\ Has(last.trace, "area_contain")
    /\ At(last.trace, "area_contain") < At(last.trace, "add_turf_to_area")

\* C17: for a CreateAtom command whose tile reference is not null and which
\* runs to its end: setup_preloader is called iff the prefab has a variable
\* block, and then before the instantiation; builtin_new is called exactly
\* once; apply_preloader is called once, after the instantiation, with or
\* without a variable block.  A command stopped by a host failure never
\* has its calls in another order.
C17_CreateAtomOrder ==
    OnTile("CreateAtom") =>
        LET t == last.trace IN
        /\ Count(t, "builtin_new") <= 1
        /\ Count(t, "apply_preloader") <= 1
        /\ Count(t, "setup_preloader") <= 1
        /\ Has(t, "setup_preloader") => LastCmd.vars
        /\ (Has(t, "setup_preloader") /\ Has(t, "builtin_new")) =>
              At(t, "setup_preloader") < At(t, "builtin_new")
        /\ Has(t, "apply_preloader") =>
              /\ Has(t, "builtin_new")
              /\ At(t, "builtin_new") < At(t, "apply_preloader")
        /\ Has(t, "builtin_new") => (Has(t, "setup_preloader") <=> LastCmd.vars)
        /\ last.status = "done" =>
              /\ Count(t, "builtin_new") = 1
              /\ Count(t, "apply_preloader") = 1
              /\ Has(t, "setup_preloader") <=> LastCmd.vars

C17_Witness ==
    /\ OnTile("CreateAtom") /\ last.status = "done" /\ LastCmd.vars
    /\ \E j \in 1 .. (Len(log) - 1) :
          log[j][3] = "done" /\ CmdTable[log[j][2]].kind = "CreateAtom"
    /\ At(last.trace, "setup_preloader") < At(last.trace, "builtin_new")
    /\ At(last.trace, "builtin_new") < At(last.trace, "apply_preloader")

\* C19: an invocation clears the loading flag of its parsed map exactly when
\* it returns Done; a step of an invocation that goes on, returns
\* MoreWorkPending or returns an error leaves every loading flag as it was.
C19_LoadingFollowsDone ==
    [][ IF /\ pc' = "idle" /\ ret' = "Done"
           /\ event' \in { "call_no_buffer", "finish" }
        THEN loading' = [loading EXCEPT ![cur'.id] = FALSE]
        ELSE loading' = loading ]_vars

C19_Witness ==
    /\ event = "finish" /\ ret = "Done" /\ ~loading[0]
    /\ undisturbed /\ calls >= 2 /\ Len(log) > MIN_PAUSE

\* C20: when a popped command fails (out-of-range coordinate or host
\* primitive failure) the invocation returns the error, the buffer stays
\* resident holding exactly the commands that were below the failed one, and
\* whatever is dispatched afterwards lies below it: the next dispatch is the
\* command right below, the failed one is never dispatched again.
C20_FailedCommandConsumed ==
    LET Failed(j) == log[j][3] \in { "err_oor", "err_host" } IN
    /\ (event = "step" /\ last.status \in { "err_oor", "err_host" }) =>
          /\ pc = "idle" /\ ret = last.status
          /\ Resident
          /\ Buf.commands = SubSeq(initial, 1, last.pos - 1)
    /\ \A j \in 1 .. Len(log) :
          Failed(j) =>
             /\ \A k \in (j + 1) .. Len(log) : log[k][1] < log[j][1]
             /\ j < Len(log) => log[j + 1][1] = log[j][1] - 1

C20_Witness ==
    /\ event = "step" /\ last.status = "done" /\ Len(log) = 3
    /\ log[1][3] = "err_oor" /\ log[2][3] = "err_host"
    /\ Resident /\ Buf.commands = << >>

\* Whether the host converts a literal on its own: a leaf unless the host
\* fails its call; a list always (its list primitives working).
Converts(lit) == lit.kind \in { "List", "AssocList" } \/ ~lit.bad
PairConverts(e) == Converts(e.key) /\ Converts(e.val)

RECURSIVE Image(_)
\* The host value a literal stands for, with the elements and pairs that do
\* not convert left out and the others in their order.
Image(lit) ==
    CASE lit.kind = "List" ->
            LET kept == SelectSeq(lit.items, Converts)
            IN  Value("list", 0,
                      [i \in 1 .. Len(kept) |-> Entry(NullValue, Image(kept[i]))])
      [] lit.kind = "AssocList" ->
            LET kept == SelectSeq(lit.items, PairConverts)
            IN  Value("list", 0,
                      [i \in 1 .. Len(kept) |->
                          Entry(Image(kept[i].key), Image(kept[i].val))])
      [] OTHER ->
            Value(IF lit.kind = "Fallback" THEN "String" ELSE lit.kind, lit.id, << >>)

RECURSIVE Omitted(_)
RECURSIVE OmittedFrom(_, _, _)
\* How many elements and pairs are left out of a literal, at every depth.
OmittedFrom(kind, items, i) ==
    IF i > Len(items) THEN 0
    ELSE OmittedFrom(kind, items, i + 1)
         + (IF kind = "List"
            THEN (IF Converts(items[i]) THEN Omitted(items[i]) ELSE 1)
            ELSE Omitted(items[i].key) + Omitted(items[i].val)
                 + (IF PairConverts(items[i]) THEN 0 ELSE 1))
Omitted(lit) ==
    IF lit.kind \in { "List", "AssocList" } THEN OmittedFrom(lit.kind, lit.items, 1)
    ELSE 0

RECURSIVE OmittedInVars(_, _)
OmittedInVars(list, i) ==
    IF i > Len(list) THEN 0
    ELSE Omitted(list[i].lit) + OmittedInVars(list, i + 1)

OmitWarns(warns) ==
    Cardinality({ i \in 1 .. Len(warns) :
                     warns[i] \in { "list", "assoc_key", "assoc_val" } })

\* C18: when the host's list and warning primitives work and no variable's
\* own literal is a leaf the host fails, the conversion of the variable list
\* succeeds whatever elements, keys or values inside its List and AssocList
\* literals fail: each such list holds the others, converted, in their
\* original order, and one warning is recorded per element or pair left out.
C18_LocalListFailure ==
    (op = "convert" /\ output.done /\ input.vars.some) =>
        LET vs == input.vars.list
            r == output.val
            e == input.env
        IN  (/\ ~e.badNew /\ ~e.badPush /\ ~e.badWarn
             /\ \A i \in 1 .. Len(vs) : Converts(vs[i].lit))
            => /\ r.tag = "ok"
               /\ Len(r.val.items) = Len(vs)
               /\ \A i \in 1 .. Len(vs) :
                     r.val.items[i] =
                        Entry(Value("String", vs[i].name, << >>), Image(vs[i].lit))
               /\ OmitWarns(r.warns) = OmittedInVars(vs, 1)

C18_Witness ==
    /\ op = "convert" /\ output.done /\ input.vars.some
    /\ ~input.env.badNew /\ ~input.env.badPush /\ ~input.env.badWarn
    /\ output.val.tag = "ok"
    /\ LET lit == input.vars.list[1].lit IN
       /\ lit.kind = "List" /\ Len(lit.items) = 3
       /\ Converts(lit.items[1]) /\ lit.items[2] = PathBad
       /\ lit.items[3].kind = "AssocList" /\ lit.items[1] # lit.items[3]
       /\ Len(output.val.val.items[1].val.items) = 2
       /\ OmitWarns(output.val.warns) = 2

\* C11: for a map written in the legacy dialect and the same map written in
\* the TGM dialect, get_prefab_locations finds the same number of entries
\* (one per entry of the table) and parsing each entry yields the same key
\* and the same sequence of prefabs, with the same type paths and the same
\* variable name / literal pairs: those that were written.
C11_DialectInvariance ==
    (op = "parse" /\ output.done) =>
        LET l == output.val.legacy
            t == output.val.tgm
        IN  /\ l.count = t.count /\ l.count = Len(input)
            /\ \A k \in 1 .. Len(input) :
                  /\ l.entries[k].ok /\ t.entries[k].ok
                  /\ l.entries[k] = t.entries[k]
                  /\ l.entries[k].key = input[k].key
                  /\ l.entries[k].prefabs = input[k].prefabs

C11_Witness ==
    /\ op = "parse" /\ output.done /\ Len(input) = 3
    /\ output.val.legacy.count = 3 /\ output.val.tgm.count = 3
    /\ output.val.legacy.entries = output.val.tgm.entries
    /\ output.val.legacy.lines[1].prefabs[1].block.raw
          = << "lb", "name", "sp", "eq", "sp", "quote", "meow", "quote", "rb" >>
    /\ output.val.tgm.lines[1].prefabs[1].block.raw
          = << "lb", "nl", "tab", "name", "sp", "eq", "sp", "quote", "meow",
               "quote", "nl", "tab", "rb" >>
    /\ Len(output.val.tgm.entries[2].prefabs) = 2
    /\ Len(output.val.tgm.entries[2].prefabs[2].vars.list) = 2

\* The commands that failed on an out-of-range coordinate so far.
RangeErrors ==
    Cardinality({ j \in 1 .. Len(log) : log[j][3] \in { "err_oor", "panic" } })

\* C21: with no host primitive failing and a scheduler that keeps invoking
\* the drain, whatever the tick check answers: an invocation eventually
\* returns Done with the buffer removed; an invocation that returns
\* MoreWorkPending has executed at least MIN_PAUSE commands; and, as long as
\* no command has failed, at most floor(N / MIN_PAUSE) + 1 invocations have
\* been made.
C21_Terminates ==
    /\ []((event = "step" /\ ret = "More") => executed >= MIN_PAUSE)
    /\ [](RangeErrors = 0 => entered <= (Len(initial) \div MIN_PAUSE) + 1)
    /\ <>(~Resident /\ ret = "Done")

\* N = MaxBatches * MIN_PAUSE commands drained without an error by the
\* floor(N / MIN_PAUSE) + 1 invocations of the bound.
C21_Witness ==
    /\ ~Resident /\ ret = "Done" /\ event = "finish"
    /\ Len(initial) = MaxBatches * MIN_PAUSE
    /\ entered = MaxBatches + 1
    /\ RangeErrors = 0

====
